---------------------------- MODULE Spec2Model ----------------------------
(***************************************************************************)
(* The quiz session state machine of notes2Quiz, in its two wired-up       *)
(* implementations:                                                        *)
(*   "simple" : class SimpleQuizApp        (src/src/quiz-simple.ts)        *)
(*   "react"  : function component QuizApp (src/dist/quiz-simple.d.ts,     *)
(*              lines 52-551), the one with the localStorage checkpoint.   *)
(* A behaviour runs one of them (variable app).  Every handler is a pure   *)
(* operator from the session record to the session record it leaves, and   *)
(* every action is a user event the page can dispatch in the current       *)
(* state (the control is rendered, visible and enabled) followed by the    *)
(* handler and, for the component, the save effect of the re-render.       *)
(* The earlier class QuizApp (src/script.js), app = "legacy", is modelled   *)
(* as far as its question picker goes, under specifications of its own.    *)
(***************************************************************************)
EXTENDS Integers, Sequences, FiniteSets, TLC

(* ----------------------------- bounds --------------------------------- *)
\* longest question list the server file holds
MaxQuestions == 2
\* answers are dispatched only while questionsAttempted is below this
MaxAttempted == 2
\* longest list the shuffle is applied to on its own
MaxShuffled == 3
\* greatest number of attempts the accuracy is computed for on its own
MaxCounted == 40
\* longest question list the earlier QuizApp picks from
MaxPicked == 3

(* ----------------------------- strings -------------------------------- *)
\* A string is a sequence of one-character strings.
Str1(a) == <<a>>
Str2(a, b) == <<a, b>>
Str3(a, b, c) == <<a, b, c>>
EmptyString == <<>>

UpperToLower == [A |-> "a", B |-> "b", C |-> "c", D |-> "d", E |-> "e"]

\* String.prototype.toLowerCase
ToLowerCase(s) ==
    [i \in DOMAIN s |-> IF s[i] \in DOMAIN UpperToLower THEN UpperToLower[s[i]] ELSE s[i]]

RECURSIVE TrimStart(_)
TrimStart(s) ==
    IF s # <<>> /\ Head(s) = " " THEN TrimStart(Tail(s)) ELSE s

RECURSIVE TrimEnd(_)
TrimEnd(s) ==
    IF s # <<>> /\ s[Len(s)] = " " THEN TrimEnd(SubSeq(s, 1, Len(s) - 1)) ELSE s

\* String.prototype.trim
Trim(s) == TrimEnd(TrimStart(s))

(* ---------------------------- questions ------------------------------- *)
\* interface QuizQuestion: the fields the session logic reads
Question(alts, ans) == [alternatives |-> alts, answer |-> ans]

\* The questions a server file is built from: one whose answer is the
\* first alternative verbatim, one whose answer matches the second and the
\* third alternative, and those only after case folding and trimming, and
\* one whose answer matches no alternative.
QuestionBank ==
    { Question(<<Str1("a"), Str1("b"), Str1("c"), Str1("d")>>, Str1("a")),
      Question(<<Str1("a"), Str2("B", " "), Str1("b"), Str1("d")>>, Str2(" ", "b")),
      Question(<<Str1("a"), Str1("b"), Str1("c"), Str1("d")>>, Str1("e")) }

\* what the user can type into the answer input
Texts == { EmptyString, Str1(" "), Str3(" ", "B", " ") }

\* const letters: AnswerLetter[] = ['A', 'B', 'C', 'D']
Letters == <<"A", "B", "C", "D">>

\* the exception extractCorrectAnswer raises
Throw == "THROW"

\* a nullable value: <<>> is null, <<v>> is v
Null == <<>>
Some(v) == <<v>>

SeqsUpTo(S, n) == UNION { [1..k -> S] : k \in 0..n }

Min(S) == CHOOSE x \in S : \A y \in S : x <= y

\* the comparison without toLowerCase
Matches_CaseSensitive(alternative, answerText) ==
    Trim(alternative) = Trim(answerText)

\* alternative.toLowerCase().trim() === answerText.toLowerCase().trim()
Matches(alternative, answerText) ==
    Trim(ToLowerCase(alternative)) = Trim(ToLowerCase(answerText))

\* extractCorrectAnswer falling back to 'A' when nothing matches
extractCorrectAnswer_DefaultsToA(cq, answerText) ==
    IF cq = Null THEN "A"
    ELSE LET alts == cq[1].alternatives
             hits == { i \in 1..Len(alts) : Matches(alts[i], answerText) }
         IN  IF hits = {} THEN "A" ELSE Letters[Min(hits)]

\* extractCorrectAnswer returning the letter of the last matching alternative
extractCorrectAnswer_LastMatch(cq, answerText) ==
    IF cq = Null THEN "A"
    ELSE LET alts == cq[1].alternatives
             hits == { i \in 1..Len(alts) : Matches(alts[i], answerText) }
         IN  IF hits = {} THEN Throw
             ELSE Letters[CHOOSE i \in hits : \A j \in hits : j <= i]

\* extractCorrectAnswer with this.currentQuestion / currentQuestion = cq:
\* 'A' without a current question, the letter of the first matching
\* alternative, or the thrown Error.
extractCorrectAnswer(cq, answerText) ==
    IF cq = Null THEN "A"
    ELSE LET alts == cq[1].alternatives
             hits == { i \in 1..Len(alts) : Matches(alts[i], answerText) }
         IN  IF hits = {} THEN Throw ELSE Letters[Min(hits)]

(* --------------------------- the fuzzy grader ------------------------- *)
\* characters that are neither \w nor \s
Punctuation == { ".", ",", "!", "?" }

\* replace(/[^\w\s]/g, '')
RECURSIVE RemovePunctuation(_)
RemovePunctuation(s) ==
    IF s = <<>> THEN <<>>
    ELSE IF Head(s) \in Punctuation THEN RemovePunctuation(Tail(s))
    ELSE <<Head(s)>> \o RemovePunctuation(Tail(s))

\* replace(/\s+/g, ' ')
RECURSIVE CollapseSpaces(_)
CollapseSpaces(s) ==
    IF Len(s) < 2 THEN s
    ELSE IF s[1] = " " /\ s[2] = " " THEN CollapseSpaces(Tail(s))
    ELSE <<Head(s)>> \o CollapseSpaces(Tail(s))

\* normalizeText of checkTextAnswer
NormalizeText(text) == CollapseSpaces(RemovePunctuation(Trim(ToLowerCase(text))))

\* String.prototype.includes
Includes(s, part) ==
    \E i \in 0..(Len(s) - Len(part)) : SubSeq(s, i + 1, i + Len(part)) = part

\* checkTextAnswer accepting a text that is near any alternative
checkTextAnswer_AnyAlternative(cq, userAnswer, correctAnswer) ==
    LET normalizedUser == NormalizeText(userAnswer)
        normalizedCorrect == NormalizeText(correctAnswer)
        Near(alt) ==
            \/ normalizedUser = NormalizeText(alt)
            \/ Includes(normalizedUser, NormalizeText(alt))
            \/ Includes(NormalizeText(alt), normalizedUser)
    IN  IF normalizedUser = normalizedCorrect THEN TRUE
        ELSE IF \/ Includes(normalizedUser, normalizedCorrect)
                \/ Includes(normalizedCorrect, normalizedUser) THEN TRUE
        ELSE IF cq = Null THEN FALSE
        ELSE \E i \in 1..Len(cq[1].alternatives) : Near(cq[1].alternatives[i])

\* checkTextAnswer with this.currentQuestion = cq
checkTextAnswer(cq, userAnswer, correctAnswer) ==
    LET normalizedUser == NormalizeText(userAnswer)
        normalizedCorrect == NormalizeText(correctAnswer)
        Near(alt) ==
            \/ normalizedUser = NormalizeText(alt)
            \/ Includes(normalizedUser, NormalizeText(alt))
            \/ Includes(NormalizeText(alt), normalizedUser)
    IN  IF normalizedUser = normalizedCorrect THEN TRUE
        ELSE IF \/ Includes(normalizedUser, normalizedCorrect)
                \/ Includes(normalizedCorrect, normalizedUser) THEN TRUE
        ELSE IF cq = Null THEN FALSE
        ELSE LET alts == cq[1].alternatives
                 near == { i \in 1..Len(alts) : Near(alts[i]) }
             IN  IF near = {} THEN FALSE
                 ELSE NormalizeText(alts[Min(near)]) = normalizedCorrect

(* ------------------------- Number arithmetic -------------------------- *)
\* A positive Number is a binary64 value: [sig, exp] with sig its 53
\* significand bits, most significant first and sig[1] = 1, standing for
\* 0.sig[1]sig[2]...sig[53] * 2^exp.  Every operation rounds its exact
\* result to 53 bits, ties to the even significand.
SigBits == 53

\* the bits of a natural number, most significant first, <<>> for 0
RECURSIVE BitsOfNat(_)
BitsOfNat(n) == IF n = 0 THEN <<>> ELSE Append(BitsOfNat(n \div 2), n % 2)

\* the natural number a bit sequence is
RECURSIVE NatOfBits(_)
NatOfBits(bits) ==
    IF bits = <<>> THEN 0
    ELSE 2 * NatOfBits(SubSeq(bits, 1, Len(bits) - 1)) + bits[Len(bits)]

\* bits behind enough zeros to make n bits
PadTo(bits, n) ==
    [i \in 1..n |-> IF i <= n - Len(bits) THEN 0 ELSE bits[i - (n - Len(bits))]]

\* bits + 1, one bit longer when all bits are 1
Increment(bits) ==
    LET zeros == { i \in 1..Len(bits) : bits[i] = 0 }
    IN  IF zeros = {} THEN <<1>> \o [i \in 1..Len(bits) |-> 0]
        ELSE LET last == CHOOSE i \in zeros : \A k \in zeros : k <= i
             IN  [i \in 1..Len(bits) |->
                    IF i < last THEN bits[i] ELSE IF i = last THEN 1 ELSE 0]

\* The exact value 0.bits * 2^exp (bits[1] = 1, more than SigBits bits,
\* sticky: the exact value has further non-zero bits) as a Number.
RoundToNumber(bits, sticky, exp) ==
    LET kept == SubSeq(bits, 1, SigBits)
        guard == bits[SigBits + 1]
        rest == sticky \/ \E i \in (SigBits + 2)..Len(bits) : bits[i] = 1
        up == guard = 1 /\ (rest \/ kept[SigBits] = 1)
        raised == Increment(kept)
    IN  IF ~up THEN [sig |-> kept, exp |-> exp]
        ELSE IF Len(raised) = SigBits THEN [sig |-> raised, exp |-> exp]
        ELSE [sig |-> SubSeq(raised, 1, SigBits), exp |-> exp + 1]

\* long division, eight bits at a time: the next 8 * n bits of r / d
\* (r < d) after the binary point, and the remainder left
RECURSIVE DivideBits(_, _, _)
DivideBits(r, d, n) ==
    IF n = 0 THEN [bits |-> <<>>, rem |-> r]
    ELSE LET more == DivideBits((256 * r) % d, d, n - 1)
         IN  [bits |-> PadTo(BitsOfNat((256 * r) \div d), 8) \o more.bits,
              rem |-> more.rem]

\* the least k with n * 2^k >= d
RECURSIVE ShiftsToReach(_, _)
ShiftsToReach(n, d) == IF n >= d THEN 0 ELSE 1 + ShiftsToReach(2 * n, d)

RECURSIVE TwoToThe(_)
TwoToThe(k) == IF k = 0 THEN 1 ELSE 2 * TwoToThe(k - 1)

\* n / d for integers 0 < n <= d
NumberDivide(n, d) ==
    LET k == ShiftsToReach(n, d)
        q == DivideBits(n * TwoToThe(k) - d, d, 7)
    IN  RoundToNumber(<<1>> \o q.bits, q.rem # 0, 1 - k)

\* bits * m + carry for a small natural m, sixteen bits at a time from the
\* least significant end
RECURSIVE TimesSmall(_, _, _)
TimesSmall(bits, m, carry) ==
    IF bits = <<>> THEN BitsOfNat(carry)
    ELSE LET n == IF Len(bits) < 16 THEN Len(bits) ELSE 16
             t == NatOfBits(SubSeq(bits, Len(bits) - n + 1, Len(bits))) * m + carry
         IN  TimesSmall(SubSeq(bits, 1, Len(bits) - n), m, t \div TwoToThe(n))
               \o PadTo(BitsOfNat(t % TwoToThe(n)), n)

\* x * m for a Number x and an integer 1 < m < 128
NumberTimes(x, m) ==
    LET product == TimesSmall(x.sig, m, 0)
    IN  RoundToNumber(product, FALSE, x.exp + Len(product) - SigBits)

\* Math.round of a Number below 2^52: the integer nearest to it, the
\* greater one of two equally near
MathRound(x) ==
    IF x.exp < 0 THEN 0
    ELSE NatOfBits(SubSeq(x.sig, 1, x.exp)) + x.sig[x.exp + 1]

\* Math.round((correctCount / questionsAttempted) * 100), 0 without
\* attempts; correct <= attempted
Accuracy(correct, attempted) ==
    IF attempted > 0
    THEN IF correct = 0 THEN 0
         ELSE MathRound(NumberTimes(NumberDivide(correct, attempted), 100))
    ELSE 0

(* ----------------------------- shuffle -------------------------------- *)
\* the swap that overwrites arr[i] and keeps arr[j]
Swap_Overwrites(arr, i, j) == [arr EXCEPT ![i] = arr[j]]

\* [arr[i], arr[j]] = [arr[j], arr[i]]
Swap(arr, i, j) == [arr EXCEPT ![i] = arr[j], ![j] = arr[i]]

\* The Fisher-Yates loop: i from the last index down to the second,
\* j = pick[i] an index not above i (arrays are 1-based here).
RECURSIVE FisherYates(_, _, _)
FisherYates(arr, i, pick) ==
    IF i <= 1 THEN arr ELSE FisherYates(Swap(arr, i, pick[i]), i - 1, pick)

\* j drawn from all the indices of the array, whatever i
Picks_AnyIndex(n) == [1..n -> 1..(IF n = 0 THEN 1 ELSE n)]

\* the values Math.floor(Math.random() * (i + 1)) can take over the loop
Picks(n) == { p \in [1..n -> 1..(IF n = 0 THEN 1 ELSE n)] : \A i \in 1..n : p[i] <= i }

Shuffles(list) == { FisherYates(list, Len(list), p) : p \in Picks(Len(list)) }

(* ------------------------------- JSON --------------------------------- *)
\* A JSON text is what localStorage holds: either no JSON at all, or an
\* object written as its keys and their values in the order of writing.
\* A parsed object is read by property name; a name it lacks is undefined.

\* the property names of interface QuizState, in the order saveState writes them
QuizStateKeys ==
    <<"currentQuestionIndex", "questionsAttempted", "correctCount", "isTextMode",
      "shuffledQuestions">>

\* JSON.stringify of a QuizState object
JSONStringify(state) ==
    [ valid  |-> TRUE,
      keys   |-> QuizStateKeys,
      values |-> [i \in 1..Len(QuizStateKeys) |-> state[QuizStateKeys[i]]] ]

\* JSON.parse throws a SyntaxError on this text
JSONParseThrows(text) == ~text.valid

\* JSON.parse of a text it accepts: the object
JSONParse(text) == [keys |-> text.keys, values |-> text.values]

\* obj.name is not undefined
HasProperty(obj, name) == \E i \in 1..Len(obj.keys) : obj.keys[i] = name

\* obj.name of an object that has the property
Get(obj, name) == obj.values[CHOOSE i \in 1..Len(obj.keys) : obj.keys[i] = name]

\* a stored text that is no JSON, and the stored text "{}"
InvalidJSON == [valid |-> FALSE, keys |-> <<>>, values |-> <<>>]
EmptyObjectJSON == [valid |-> TRUE, keys |-> <<>>, values |-> <<>>]

\* what localStorage['quizCheckpoint'] can hold when the page is first
\* opened: nothing, or one of the two texts no QuizState can be read from
InitialStorage == { Null, Some(InvalidJSON), Some(EmptyObjectJSON) }

(* ------------------------------ state --------------------------------- *)
VARIABLES
    app,                  \* which implementation runs: "simple" or "react"
    serverFile,           \* the question list quiz_questions.json holds
    fetched,              \* the array response.json() returned, Null before
    loading,              \* loading element shown / useState(true)
    error,                \* error shown / error !== ''
    crashed,              \* the component's render threw
    restoringFromCheckpoint, \* useState(false) of the component
    questions,
    currentQuestionIndex,
    currentQuestion,      \* this.currentQuestion of SimpleQuizApp
    hasAnswered,
    questionsAttempted,
    correctCount,
    isTextMode,
    userAnswer,           \* answerInput.value / useState('')
    showSelfAssessment,   \* selfAssessmentContainer displayed / useState(false)
    showFeedback,         \* feedbackContainer and nextButton displayed / useState(false)
    feedbackData,         \* useState(null) of the component
    inputDisabled,        \* answerInput.disabled and submitButton.disabled
    optionsDisabled,      \* the option buttons of SimpleQuizApp are disabled
    textInputVisible,     \* textInputContainer displayed
    optionsVisible,       \* optionsContainer displayed
    complete,             \* showQuizComplete replaced the question container
    storage,              \* localStorage['quizCheckpoint'], Null when absent
    storageWorks,         \* FALSE: every call of localStorage throws
    clearCalls,           \* calls of clearSavedState since the page loaded
    restartStage,         \* "restarted" from a restart to the end of its fetch,
                          \* "ready" in the state that fetch leaves, else "none"
    usedQuestions,        \* this.usedQuestions of the earlier QuizApp
    randomIndex,          \* the local randomIndex of showRandomQuestion, Null before a draw
    pc,                   \* "loop" inside the do-while of showRandomQuestion, else "idle"
    presented             \* the indices presented since usedQuestions was last empty

sessionVars ==
    <<questions, currentQuestionIndex, currentQuestion, hasAnswered,
      questionsAttempted, correctCount, isTextMode, userAnswer,
      showSelfAssessment, showFeedback, feedbackData, inputDisabled,
      optionsDisabled, textInputVisible, optionsVisible, complete>>

pageVars ==
    <<app, serverFile, storageWorks, fetched, loading, error, crashed, restoringFromCheckpoint,
      storage, clearCalls>>

\* the variables of the earlier QuizApp alone
legacyVars == <<usedQuestions, randomIndex, pc, presented>>

vars == <<pageVars, restartStage, sessionVars, legacyVars>>

\* the session as one value, the argument and result of every handler
Cur ==
    [ questions            |-> questions,
      currentQuestionIndex |-> currentQuestionIndex,
      currentQuestion      |-> currentQuestion,
      hasAnswered          |-> hasAnswered,
      questionsAttempted   |-> questionsAttempted,
      correctCount         |-> correctCount,
      isTextMode           |-> isTextMode,
      userAnswer           |-> userAnswer,
      showSelfAssessment   |-> showSelfAssessment,
      showFeedback         |-> showFeedback,
      feedbackData         |-> feedbackData,
      inputDisabled        |-> inputDisabled,
      optionsDisabled      |-> optionsDisabled,
      textInputVisible     |-> textInputVisible,
      optionsVisible       |-> optionsVisible,
      complete             |-> complete ]

\* the field initialisers of SimpleQuizApp and the useState defaults of QuizApp
InitialSession ==
    [ questions            |-> <<>>,
      currentQuestionIndex |-> 0,
      currentQuestion      |-> Null,
      hasAnswered          |-> FALSE,
      questionsAttempted   |-> 0,
      correctCount         |-> 0,
      isTextMode           |-> FALSE,
      userAnswer           |-> EmptyString,
      showSelfAssessment   |-> FALSE,
      showFeedback         |-> FALSE,
      feedbackData         |-> Null,
      inputDisabled        |-> FALSE,
      optionsDisabled      |-> FALSE,
      textInputVisible     |-> FALSE,
      optionsVisible       |-> FALSE,
      complete             |-> FALSE ]

\* the session variables take the values of s
Apply(s) ==
    /\ questions' = s.questions
    /\ currentQuestionIndex' = s.currentQuestionIndex
    /\ currentQuestion' = s.currentQuestion
    /\ hasAnswered' = s.hasAnswered
    /\ questionsAttempted' = s.questionsAttempted
    /\ correctCount' = s.correctCount
    /\ isTextMode' = s.isTextMode
    /\ userAnswer' = s.userAnswer
    /\ showSelfAssessment' = s.showSelfAssessment
    /\ showFeedback' = s.showFeedback
    /\ feedbackData' = s.feedbackData
    /\ inputDisabled' = s.inputDisabled
    /\ optionsDisabled' = s.optionsDisabled
    /\ textInputVisible' = s.textInputVisible
    /\ optionsVisible' = s.optionsVisible
    /\ complete' = s.complete

\* the session variables start as InitialSession
InitSession ==
    /\ questions = InitialSession.questions
    /\ currentQuestionIndex = InitialSession.currentQuestionIndex
    /\ currentQuestion = InitialSession.currentQuestion
    /\ hasAnswered = InitialSession.hasAnswered
    /\ questionsAttempted = InitialSession.questionsAttempted
    /\ correctCount = InitialSession.correctCount
    /\ isTextMode = InitialSession.isTextMode
    /\ userAnswer = InitialSession.userAnswer
    /\ showSelfAssessment = InitialSession.showSelfAssessment
    /\ showFeedback = InitialSession.showFeedback
    /\ feedbackData = InitialSession.feedbackData
    /\ inputDisabled = InitialSession.inputDisabled
    /\ optionsDisabled = InitialSession.optionsDisabled
    /\ textInputVisible = InitialSession.textInputVisible
    /\ optionsVisible = InitialSession.optionsVisible
    /\ complete = InitialSession.complete

\* the page when it is first opened; SimpleQuizApp never touches localStorage
InitPage(works) ==
    /\ app \in {"simple", "react"}
    /\ serverFile \in SeqsUpTo(QuestionBank, MaxQuestions)
    /\ fetched = Null
    /\ loading = TRUE
    /\ error = FALSE
    /\ crashed = FALSE
    /\ restoringFromCheckpoint = FALSE
    /\ storage \in (IF app = "simple" THEN {Null} ELSE InitialStorage)
    /\ storageWorks \in (IF app = "simple" THEN {TRUE} ELSE works)
    /\ clearCalls = 0
    /\ restartStage = "none"
    /\ InitSession
    /\ usedQuestions = {}
    /\ randomIndex = Null
    /\ pc = "idle"
    /\ presented = <<>>

\* localStorage works
Init == InitPage({TRUE})

\* localStorage works, or every call of it throws
InitStorageFails == InitPage(BOOLEAN)

(* ---------------------- SimpleQuizApp handlers ------------------------ *)
\* showTextInput / showMultipleChoice with createOptions
S_showInput(s) ==
    IF s.isTextMode
    THEN [s EXCEPT !.optionsVisible = FALSE, !.textInputVisible = TRUE,
                   !.userAnswer = EmptyString, !.inputDisabled = FALSE]
    ELSE [s EXCEPT !.optionsVisible = TRUE, !.textInputVisible = FALSE,
                   !.optionsDisabled = FALSE]

S_displayCurrentQuestion(s) ==
    IF s.currentQuestionIndex >= Len(s.questions)
    THEN [s EXCEPT !.complete = TRUE]
    ELSE [S_showInput([s EXCEPT
                         !.currentQuestion = Some(s.questions[s.currentQuestionIndex + 1]),
                         !.hasAnswered = FALSE])
            EXCEPT !.showFeedback = FALSE, !.showSelfAssessment = FALSE]

\* selectOption with the attempt counted in the else branch only
S_selectOption_CountsOnlyWrong(s, selectedLetter) ==
    IF s.hasAnswered \/ s.currentQuestion = Null THEN s
    ELSE LET s1 == [s EXCEPT !.hasAnswered = TRUE]
             correctLetter == extractCorrectAnswer(s.currentQuestion, s.currentQuestion[1].answer)
         IN  IF correctLetter = Throw THEN s1
             ELSE [s1 EXCEPT
                     !.questionsAttempted = IF selectedLetter = correctLetter THEN @ ELSE @ + 1,
                     !.correctCount = IF selectedLetter = correctLetter THEN @ + 1 ELSE @,
                     !.optionsDisabled = TRUE,
                     !.showFeedback = TRUE]

S_selectOption(s, selectedLetter) ==
    IF s.hasAnswered \/ s.currentQuestion = Null THEN s
    ELSE LET s1 == [s EXCEPT !.hasAnswered = TRUE]
             correctLetter == extractCorrectAnswer(s.currentQuestion, s.currentQuestion[1].answer)
         IN  IF correctLetter = Throw THEN s1
             ELSE [s1 EXCEPT
                     !.questionsAttempted = @ + 1,
                     !.correctCount = IF selectedLetter = correctLetter THEN @ + 1 ELSE @,
                     !.optionsDisabled = TRUE,
                     !.showFeedback = TRUE]

\* submitTextAnswer testing the raw input value instead of the trimmed one
S_submitTextAnswer_NoTrim(s) ==
    IF s.hasAnswered \/ s.currentQuestion = Null THEN s
    ELSE IF s.userAnswer = EmptyString THEN s
    ELSE LET s1 == [s EXCEPT !.hasAnswered = TRUE, !.inputDisabled = TRUE]
             correctLetter == extractCorrectAnswer(s.currentQuestion, s.currentQuestion[1].answer)
         IN  IF correctLetter = Throw THEN s1
             ELSE [s1 EXCEPT !.showSelfAssessment = TRUE, !.textInputVisible = FALSE]

S_submitTextAnswer(s) ==
    IF s.hasAnswered \/ s.currentQuestion = Null THEN s
    ELSE IF Trim(s.userAnswer) = EmptyString THEN s
    ELSE LET s1 == [s EXCEPT !.hasAnswered = TRUE, !.inputDisabled = TRUE]
             correctLetter == extractCorrectAnswer(s.currentQuestion, s.currentQuestion[1].answer)
         IN  IF correctLetter = Throw THEN s1
             ELSE [s1 EXCEPT !.showSelfAssessment = TRUE, !.textInputVisible = FALSE]

S_handleSelfAssessment(s, isCorrect) ==
    LET s1 == [s EXCEPT
                 !.questionsAttempted = @ + 1,
                 !.correctCount = IF isCorrect THEN @ + 1 ELSE @,
                 !.showSelfAssessment = FALSE]
    IN  IF s.currentQuestion = Null THEN s1
        ELSE IF extractCorrectAnswer(s.currentQuestion, s.currentQuestion[1].answer) = Throw THEN s1
        ELSE [s1 EXCEPT !.showFeedback = TRUE]

S_goToNextQuestion(s) ==
    S_displayCurrentQuestion([s EXCEPT !.currentQuestionIndex = @ + 1])

\* toggleMode re-displaying through goToNextQuestion
S_toggleMode_Advances(s) ==
    S_goToNextQuestion([s EXCEPT !.isTextMode = ~@])

S_toggleMode(s) ==
    S_displayCurrentQuestion([s EXCEPT !.isTextMode = ~@])

(* -------------------------- QuizApp handlers -------------------------- *)
\* const currentQuestion = questions[currentQuestionIndex]
R_currentQuestion(s) ==
    IF s.currentQuestionIndex < Len(s.questions)
    THEN Some(s.questions[s.currentQuestionIndex + 1]) ELSE Null

Feedback(isCorrect, selectedLetter, correctLetter, text) ==
    [isCorrect |-> isCorrect, selectedLetter |-> selectedLetter,
     correctLetter |-> correctLetter, userAnswer |-> text]

\* a Feedback without selectedLetter / without userAnswer
NoLetter == ""
NoText == EmptyString

\* selectOption without the hasAnswered test
R_selectOption_NoGuard(s, selectedLetter) ==
    LET cq == R_currentQuestion(s) IN
    IF cq = Null THEN s
    ELSE LET s1 == [s EXCEPT !.hasAnswered = TRUE]
             correctLetter == extractCorrectAnswer(cq, cq[1].answer)
         IN  IF correctLetter = Throw THEN s1
             ELSE [s1 EXCEPT
                     !.questionsAttempted = @ + 1,
                     !.correctCount = IF selectedLetter = correctLetter THEN @ + 1 ELSE @,
                     !.feedbackData = Some(Feedback(selectedLetter = correctLetter,
                                                    selectedLetter, correctLetter, NoText)),
                     !.showFeedback = TRUE]

\* selectOption counting every selection as correct
R_selectOption_AlwaysCorrect(s, selectedLetter) ==
    LET cq == R_currentQuestion(s) IN
    IF s.hasAnswered \/ cq = Null THEN s
    ELSE LET s1 == [s EXCEPT !.hasAnswered = TRUE]
             correctLetter == extractCorrectAnswer(cq, cq[1].answer)
         IN  IF correctLetter = Throw THEN s1
             ELSE [s1 EXCEPT
                     !.questionsAttempted = @ + 1,
                     !.correctCount = @ + 1,
                     !.feedbackData = Some(Feedback(selectedLetter = correctLetter,
                                                    selectedLetter, correctLetter, NoText)),
                     !.showFeedback = TRUE]

R_selectOption(s, selectedLetter) ==
    LET cq == R_currentQuestion(s) IN
    IF s.hasAnswered \/ cq = Null THEN s
    ELSE LET s1 == [s EXCEPT !.hasAnswered = TRUE]
             correctLetter == extractCorrectAnswer(cq, cq[1].answer)
         IN  IF correctLetter = Throw THEN s1
             ELSE [s1 EXCEPT
                     !.questionsAttempted = @ + 1,
                     !.correctCount = IF selectedLetter = correctLetter THEN @ + 1 ELSE @,
                     !.feedbackData = Some(Feedback(selectedLetter = correctLetter,
                                                    selectedLetter, correctLetter, NoText)),
                     !.showFeedback = TRUE]

\* submitTextAnswer counting the attempt at submission
R_submitTextAnswer_Counts(s) ==
    LET cq == R_currentQuestion(s) IN
    IF s.hasAnswered \/ cq = Null \/ Trim(s.userAnswer) = EmptyString THEN s
    ELSE LET s1 == [s EXCEPT !.hasAnswered = TRUE]
             correctLetter == extractCorrectAnswer(cq, cq[1].answer)
         IN  IF correctLetter = Throw THEN s1
             ELSE [s1 EXCEPT
                     !.questionsAttempted = @ + 1,
                     !.showSelfAssessment = TRUE,
                     !.feedbackData = Some(Feedback(FALSE, NoLetter, correctLetter,
                                                    Trim(s.userAnswer)))]

R_submitTextAnswer(s) ==
    LET cq == R_currentQuestion(s) IN
    IF s.hasAnswered \/ cq = Null \/ Trim(s.userAnswer) = EmptyString THEN s
    ELSE LET s1 == [s EXCEPT !.hasAnswered = TRUE]
             correctLetter == extractCorrectAnswer(cq, cq[1].answer)
         IN  IF correctLetter = Throw THEN s1
             ELSE [s1 EXCEPT
                     !.showSelfAssessment = TRUE,
                     !.feedbackData = Some(Feedback(FALSE, NoLetter, correctLetter,
                                                    Trim(s.userAnswer)))]

\* handleSelfAssessment ignoring its argument
R_handleSelfAssessment_AlwaysCorrect(s, isCorrect) ==
    [s EXCEPT
       !.questionsAttempted = @ + 1,
       !.correctCount = @ + 1,
       !.showSelfAssessment = FALSE,
       !.feedbackData = IF @ = Null THEN Null ELSE Some([@[1] EXCEPT !.isCorrect = isCorrect]),
       !.showFeedback = TRUE]

\* the typed text is graded by checkTextAnswer, the assessment ignored
R_handleSelfAssessment_Grades(s, isCorrect) ==
    LET graded == checkTextAnswer(R_currentQuestion(s), s.userAnswer,
                                  R_currentQuestion(s)[1].answer)
    IN  [s EXCEPT
           !.questionsAttempted = @ + 1,
           !.correctCount = IF graded THEN @ + 1 ELSE @,
           !.showSelfAssessment = FALSE,
           !.feedbackData = IF @ = Null THEN Null ELSE Some([@[1] EXCEPT !.isCorrect = graded]),
           !.showFeedback = TRUE]

\* the assessment stays pending
R_handleSelfAssessment_StaysPending(s, isCorrect) ==
    [s EXCEPT
       !.questionsAttempted = @ + 1,
       !.correctCount = IF isCorrect THEN @ + 1 ELSE @,
       !.feedbackData = IF @ = Null THEN Null ELSE Some([@[1] EXCEPT !.isCorrect = isCorrect]),
       !.showFeedback = TRUE]

R_handleSelfAssessment(s, isCorrect) ==
    [s EXCEPT
       !.questionsAttempted = @ + 1,
       !.correctCount = IF isCorrect THEN @ + 1 ELSE @,
       !.showSelfAssessment = FALSE,
       !.feedbackData = IF @ = Null THEN Null ELSE Some([@[1] EXCEPT !.isCorrect = isCorrect]),
       !.showFeedback = TRUE]

\* R_goToNextQuestion without setHasAnswered(false)
R_goToNextQuestion_KeepsAnswered(s) ==
    IF s.currentQuestionIndex + 1 >= Len(s.questions) THEN s
    ELSE [s EXCEPT
            !.currentQuestionIndex = @ + 1,
            !.userAnswer = EmptyString,
            !.showSelfAssessment = FALSE,
            !.showFeedback = FALSE,
            !.feedbackData = Null]

R_goToNextQuestion(s) ==
    IF s.currentQuestionIndex + 1 >= Len(s.questions) THEN s
    ELSE [s EXCEPT
            !.currentQuestionIndex = @ + 1,
            !.hasAnswered = FALSE,
            !.userAnswer = EmptyString,
            !.showSelfAssessment = FALSE,
            !.showFeedback = FALSE,
            !.feedbackData = Null]

\* toggleMode without setHasAnswered(false)
R_toggleMode_KeepsAnswered(s) ==
    [s EXCEPT
       !.isTextMode = ~@,
       !.userAnswer = EmptyString,
       !.showSelfAssessment = FALSE,
       !.showFeedback = FALSE,
       !.feedbackData = Null]

R_toggleMode(s) ==
    [s EXCEPT
       !.isTextMode = ~@,
       !.hasAnswered = FALSE,
       !.userAnswer = EmptyString,
       !.showSelfAssessment = FALSE,
       !.showFeedback = FALSE,
       !.feedbackData = Null]

(* ------------------- the handlers of the running app ------------------ *)
selectOption(s, selectedLetter) ==
    IF app = "simple" THEN S_selectOption(s, selectedLetter) ELSE R_selectOption(s, selectedLetter)

submitTextAnswer(s) ==
    IF app = "simple" THEN S_submitTextAnswer(s) ELSE R_submitTextAnswer(s)

handleSelfAssessment(s, isCorrect) ==
    IF app = "simple" THEN S_handleSelfAssessment(s, isCorrect) ELSE R_handleSelfAssessment(s, isCorrect)

goToNextQuestion(s) ==
    IF app = "simple" THEN S_goToNextQuestion(s) ELSE R_goToNextQuestion(s)

toggleMode(s) ==
    IF app = "simple" THEN S_toggleMode(s) ELSE R_toggleMode(s)

(* -------------------------- checkpoint store -------------------------- *)
\* the QuizState object saveState builds and JSON.stringify writes
Checkpoint(s) ==
    [ currentQuestionIndex |-> s.currentQuestionIndex,
      questionsAttempted   |-> s.questionsAttempted,
      correctCount         |-> s.correctCount,
      isTextMode           |-> s.isTextMode,
      shuffledQuestions    |-> s.questions ]

\* saveState: the storage entry after the call, st before it; a throwing
\* setItem is caught
saveState(s, st) ==
    IF Len(s.questions) = 0 THEN st
    ELSE IF storageWorks THEN Some(JSONStringify(Checkpoint(s)))
    ELSE st

\* loadState with the storage entry st: the parsed object, Null without an
\* entry and when getItem or JSON.parse throws
loadStateWhen(works, st) ==
    IF ~works \/ st = Null THEN Null
    ELSE IF JSONParseThrows(st[1]) THEN Null
    ELSE Some(JSONParse(st[1]))

loadState(st) == loadStateWhen(storageWorks, st)

\* clearSavedState: the storage entry after the call; a throwing removeItem
\* is caught
clearSavedState(st) == IF storageWorks THEN Null ELSE st

\* savedState.shuffledQuestions.length reads a property of undefined
RestoreThrows(savedState) == ~HasProperty(savedState, "shuffledQuestions")

\* the restore branch without setIsTextMode
R_restoreState_ForgetsMode(s, savedState) ==
    [s EXCEPT !.questions = Get(savedState, "shuffledQuestions"),
              !.currentQuestionIndex = Get(savedState, "currentQuestionIndex"),
              !.questionsAttempted = Get(savedState, "questionsAttempted"),
              !.correctCount = Get(savedState, "correctCount")]

\* the restore branch of loadQuestions: the five setters
R_restoreState(s, savedState) ==
    [s EXCEPT !.questions = Get(savedState, "shuffledQuestions"),
              !.currentQuestionIndex = Get(savedState, "currentQuestionIndex"),
              !.questionsAttempted = Get(savedState, "questionsAttempted"),
              !.correctCount = Get(savedState, "correctCount"),
              !.isTextMode = Get(savedState, "isTextMode")]

\* the dependency list without isTextMode
SaveDeps_WithoutMode(s) ==
    <<s.currentQuestionIndex, s.questionsAttempted, s.correctCount, s.questions>>

\* the saveState callback depending on hasAnswered as well
SaveDeps_WithAnswered(s) ==
    <<s.currentQuestionIndex, s.questionsAttempted, s.correctCount, s.isTextMode,
      s.questions, s.hasAnswered>>

\* the dependencies of the saveState callback
SaveDeps(s) ==
    <<s.currentQuestionIndex, s.questionsAttempted, s.correctCount, s.isTextMode, s.questions>>

\* useEffect(() => saveState(), [saveState]) after the render that took old to new
SaveEffect(old, new, st) ==
    IF SaveDeps(new) # SaveDeps(old) THEN saveState(new, st) ELSE st

(* ------------------------ what the page shows ------------------------- *)
\* Each predicate says that a control is on the page and can dispatch its
\* event when the session is s.

\* the question container shown although the load failed
S_QuestionView_DespiteError(s) == app = "simple" /\ ~loading /\ ~s.complete

\* the question container shown before hideLoading
S_QuestionView_WhileLoading(s) == app = "simple" /\ ~error /\ ~s.complete

\* the controls of the question container outliving showQuizComplete
S_QuestionView_AfterComplete(s) == app = "simple" /\ ~loading /\ ~error

\* SimpleQuizApp: hideLoading ran and showQuizComplete has not replaced the container
S_QuestionView(s) == app = "simple" /\ ~loading /\ ~error /\ ~s.complete

S_OptionsEnabled(s) == S_QuestionView(s) /\ s.optionsVisible /\ ~s.optionsDisabled

S_TextInputEnabled(s) == S_QuestionView(s) /\ s.textInputVisible /\ ~s.inputDisabled

S_SelfAssessmentShown(s) == S_QuestionView(s) /\ s.showSelfAssessment

\* the next button never hidden
S_NextButtonShown_Always(s) == S_QuestionView(s)

S_NextButtonShown(s) == S_QuestionView(s) /\ s.showFeedback

\* QuizApp: none of the three early returns of the render is taken
R_QuestionView(s) ==
    /\ app = "react" /\ ~loading /\ ~error /\ ~crashed
    /\ s.currentQuestionIndex < Len(s.questions)

R_OptionsEnabled(s) ==
    /\ R_QuestionView(s)
    /\ ~s.isTextMode /\ ~s.showFeedback /\ ~s.showSelfAssessment
    /\ ~s.hasAnswered

R_TextInputRendered(s) ==
    R_QuestionView(s) /\ s.isTextMode /\ ~s.showFeedback /\ ~s.showSelfAssessment

R_SelfAssessmentShown(s) ==
    R_QuestionView(s) /\ s.showSelfAssessment /\ s.feedbackData # Null

R_NextButtonShown(s) ==
    R_QuestionView(s) /\ s.showFeedback /\ s.feedbackData # Null

\* The render takes the completion branch, whose useEffect is one hook more
\* than the loading render before it called: React throws and unmounts.
RenderThrows(s) == s.currentQuestionIndex >= Len(s.questions)

(* ------------------------------ actions ------------------------------- *)
\* the page after a (re)load: constructor / first render, storage kept
FreshPage ==
    /\ Apply(InitialSession)
    /\ fetched' = Null
    /\ loading' = TRUE
    /\ error' = FALSE
    /\ crashed' = FALSE
    /\ restoringFromCheckpoint' = FALSE
    /\ clearCalls' = 0
    /\ UNCHANGED <<legacyVars, app, serverFile, storageWorks>>

\* restartStage after the fetch of a page load ended
AfterFetch(ok) == IF ok /\ restartStage = "restarted" THEN "ready" ELSE "none"

\* a handler of SimpleQuizApp ran and left the session new
S_Dispatch(new) ==
    /\ Apply(new)
    /\ restartStage' = "none"
    /\ UNCHANGED <<pageVars, legacyVars>>

\* a handler of QuizApp ran, the component re-rendered with the session new
\* and the save effect ran
R_Dispatch(new) ==
    /\ Apply(new)
    /\ storage' = SaveEffect(Cur, new, storage)
    /\ restartStage' = "none"
    /\ UNCHANGED <<legacyVars, app, serverFile, storageWorks, fetched, loading, error, crashed,
                   restoringFromCheckpoint, clearCalls>>

\* loadQuestions of SimpleQuizApp, the fetch resolved
S_FetchOk ==
    /\ app = "simple" /\ loading
    /\ \E shuffled \in Shuffles(serverFile) :
         /\ fetched' = Some(shuffled)
         /\ Apply(S_displayCurrentQuestion([Cur EXCEPT !.questions = shuffled]))
    /\ loading' = FALSE
    /\ restartStage' = AfterFetch(TRUE)
    /\ UNCHANGED <<legacyVars, app, serverFile, storageWorks, error, crashed, restoringFromCheckpoint,
                   storage, clearCalls>>

\* loadQuestions of SimpleQuizApp, the fetch failed: showError
S_FetchFail ==
    /\ app = "simple" /\ loading
    /\ loading' = FALSE
    /\ error' = TRUE
    /\ restartStage' = AfterFetch(FALSE)
    /\ UNCHANGED <<legacyVars, app, serverFile, storageWorks, fetched, crashed, restoringFromCheckpoint,
                   storage, clearCalls, sessionVars>>

\* The body of loadQuestions once the fetch resolved with data, in a
\* component whose session is s and whose loadState returns savedState: the
\* outcomes it can have.  Reading the question list of a parsed entry that
\* has none throws inside the try, and the catch sets the error; a
\* checkpoint with questions is restored; otherwise a copy of data is
\* shuffled.
R_loadQuestions(savedState, s, data) ==
    IF savedState # Null /\ RestoreThrows(savedState[1])
    THEN { [session |-> s, error |-> TRUE, restoring |-> FALSE] }
    ELSE IF savedState # Null /\ Len(Get(savedState[1], "shuffledQuestions")) > 0
    THEN { [session |-> R_restoreState(s, savedState[1]),
            error |-> FALSE, restoring |-> TRUE] }
    ELSE { [session |-> [s EXCEPT !.questions = shuffled],
            error |-> FALSE, restoring |-> FALSE] : shuffled \in Shuffles(data) }

\* a throwing getItem is not caught in loadState and reaches the catch of
\* loadQuestions
R_FetchOk_LoadFailureFatal ==
    /\ app = "react" /\ loading /\ ~crashed
    /\ fetched' = Some(serverFile)
    /\ \E out \in (IF storageWorks
                    THEN R_loadQuestions(loadState(storage), Cur, serverFile)
                    ELSE { [session |-> Cur, error |-> TRUE, restoring |-> FALSE] }) :
         LET throws == ~out.error /\ RenderThrows(out.session)
         IN  /\ Apply(out.session)
             /\ error' = out.error
             /\ restoringFromCheckpoint' = out.restoring
             /\ restartStage' = AfterFetch(~out.error)
             /\ crashed' = throws
             /\ storage' = IF throws THEN storage
                           ELSE SaveEffect(Cur, out.session, storage)
    /\ loading' = FALSE
    /\ UNCHANGED <<legacyVars, app, serverFile, storageWorks, clearCalls>>

\* the loadQuestions effect shuffling data itself instead of [...data]
R_FetchOk_ShufflesInPlace ==
    /\ app = "react" /\ loading /\ ~crashed
    /\ \E out \in R_loadQuestions(loadState(storage), Cur, serverFile) :
         LET throws == ~out.error /\ RenderThrows(out.session)
         IN  /\ Apply(out.session)
             /\ fetched' = Some(IF out.error \/ out.restoring THEN serverFile
                                ELSE out.session.questions)
             /\ error' = out.error
             /\ restoringFromCheckpoint' = out.restoring
             /\ restartStage' = AfterFetch(~out.error)
             /\ crashed' = throws
             /\ storage' = IF throws THEN storage
                           ELSE SaveEffect(Cur, out.session, storage)
    /\ loading' = FALSE
    /\ UNCHANGED <<legacyVars, app, serverFile, storageWorks, clearCalls>>

\* the loadQuestions effect of QuizApp, the fetch resolved.  The render
\* that follows a successful load throws when it takes the completion
\* branch (it calls one hook more than the loading render did), and then
\* no effect runs.
R_FetchOk ==
    /\ app = "react" /\ loading /\ ~crashed
    /\ fetched' = Some(serverFile)
    /\ \E out \in R_loadQuestions(loadState(storage), Cur, serverFile) :
         LET throws == ~out.error /\ RenderThrows(out.session)
         IN  /\ Apply(out.session)
             /\ error' = out.error
             /\ restoringFromCheckpoint' = out.restoring
             /\ restartStage' = AfterFetch(~out.error)
             /\ crashed' = throws
             /\ storage' = IF throws THEN storage
                           ELSE SaveEffect(Cur, out.session, storage)
    /\ loading' = FALSE
    /\ UNCHANGED <<legacyVars, app, serverFile, storageWorks, clearCalls>>

\* setTimeout(() => setRestoringFromCheckpoint(false), 2000)
R_NoticeTimeout ==
    /\ app = "react" /\ restoringFromCheckpoint /\ ~crashed
    /\ restoringFromCheckpoint' = FALSE
    /\ UNCHANGED <<legacyVars, app, serverFile, storageWorks, fetched, loading, error, crashed, storage,
                   clearCalls, restartStage, sessionVars>>

\* the loadQuestions effect of QuizApp, the fetch failed: setError
R_FetchFail ==
    /\ app = "react" /\ loading /\ ~crashed
    /\ loading' = FALSE
    /\ error' = TRUE
    /\ restartStage' = AfterFetch(FALSE)
    /\ UNCHANGED <<legacyVars, app, serverFile, storageWorks, fetched, crashed, restoringFromCheckpoint,
                   storage, clearCalls, sessionVars>>

\* click on an option button of SimpleQuizApp (the listener of createOptions)
S_ClickOption(letter) ==
    /\ S_OptionsEnabled(Cur)
    /\ questionsAttempted < MaxAttempted
    /\ S_Dispatch(IF ~hasAnswered THEN S_selectOption(Cur, letter) ELSE Cur)

\* typing into answerInput
S_TypeAnswer(text) ==
    /\ S_TextInputEnabled(Cur)
    /\ S_Dispatch([Cur EXCEPT !.userAnswer = text])

\* click on submitButton
S_ClickSubmit ==
    /\ S_TextInputEnabled(Cur)
    /\ S_Dispatch(S_submitTextAnswer(Cur))

\* Enter in answerInput
S_PressEnter ==
    /\ S_TextInputEnabled(Cur)
    /\ S_Dispatch(IF ~hasAnswered THEN S_submitTextAnswer(Cur) ELSE Cur)

\* click on correctButton / incorrectButton
S_ClickAssessment(isCorrect) ==
    /\ S_SelfAssessmentShown(Cur)
    /\ questionsAttempted < MaxAttempted
    /\ S_Dispatch(S_handleSelfAssessment(Cur, isCorrect))

\* click on nextButton
S_ClickNext ==
    /\ S_NextButtonShown(Cur)
    /\ S_Dispatch(S_goToNextQuestion(Cur))

\* click on modeToggle
S_ClickToggle ==
    /\ S_QuestionView(Cur)
    /\ S_Dispatch(S_toggleMode(Cur))

\* the Start Over button of showQuizComplete: location.reload()
S_StartOver ==
    /\ app = "simple" /\ ~loading /\ ~error /\ complete
    /\ FreshPage
    /\ restartStage' = "restarted"
    /\ UNCHANGED storage

\* click on an option button of QuizApp
R_ClickOption(letter) ==
    /\ R_OptionsEnabled(Cur)
    /\ questionsAttempted < MaxAttempted
    /\ R_Dispatch(R_selectOption(Cur, letter))

\* onChange of the answer input
R_TypeAnswer(text) ==
    /\ R_TextInputRendered(Cur) /\ ~hasAnswered
    /\ R_Dispatch([Cur EXCEPT !.userAnswer = text])

\* click on Submit Answer
R_ClickSubmit ==
    /\ R_TextInputRendered(Cur) /\ ~(hasAnswered \/ Trim(userAnswer) = EmptyString)
    /\ R_Dispatch(R_submitTextAnswer(Cur))

\* onKeyPress Enter of the answer input
R_PressEnter ==
    /\ R_TextInputRendered(Cur) /\ ~hasAnswered
    /\ R_Dispatch(IF ~hasAnswered THEN R_submitTextAnswer(Cur) ELSE Cur)

\* click on one of the two assessment buttons
R_ClickAssessment(isCorrect) ==
    /\ R_SelfAssessmentShown(Cur)
    /\ questionsAttempted < MaxAttempted
    /\ R_Dispatch(R_handleSelfAssessment(Cur, isCorrect))

\* click on Next Question
R_ClickNext ==
    /\ R_NextButtonShown(Cur)
    /\ R_Dispatch(R_goToNextQuestion(Cur))

\* click on the mode toggle
R_ClickToggle ==
    /\ R_QuestionView(Cur)
    /\ R_Dispatch(R_toggleMode(Cur))

\* the Restart Quiz button reloads without clearing
R_Restart_KeepsCheckpoint ==
    /\ R_QuestionView(Cur)
    /\ storage' = storage
    /\ restartStage' = "restarted"
    /\ FreshPage

\* the Restart Quiz button, confirmed: clearSavedState(), window.location.reload()
R_Restart ==
    /\ R_QuestionView(Cur)
    /\ storage' = clearSavedState(storage)
    /\ restartStage' = "restarted"
    /\ FreshPage

\* the user reloads the page
Reload ==
    /\ FreshPage
    /\ restartStage' = "none"
    /\ UNCHANGED storage

Next ==
    \/ S_FetchOk
    \/ S_FetchFail
    \/ \E letter \in {Letters[i] : i \in 1..Len(Letters)} : S_ClickOption(letter)
    \/ \E text \in Texts : S_TypeAnswer(text)
    \/ S_ClickSubmit
    \/ S_PressEnter
    \/ \E isCorrect \in BOOLEAN : S_ClickAssessment(isCorrect)
    \/ S_ClickNext
    \/ S_ClickToggle
    \/ S_StartOver
    \/ R_FetchOk
    \/ R_FetchFail
    \/ R_NoticeTimeout
    \/ \E letter \in {Letters[i] : i \in 1..Len(Letters)} : R_ClickOption(letter)
    \/ \E text \in Texts : R_TypeAnswer(text)
    \/ R_ClickSubmit
    \/ R_PressEnter
    \/ \E isCorrect \in BOOLEAN : R_ClickAssessment(isCorrect)
    \/ R_ClickNext
    \/ R_ClickToggle
    \/ R_Restart
    \/ Reload

Spec == Init /\ [][Next]_vars

\* the same page where localStorage may be out of order
SpecStorageFails == InitStorageFails /\ [][Next]_vars

(* ----------------- the question picker of the earlier QuizApp --------- *)
\* class QuizApp of src/script.js presents its questions in random order
\* without repeating one until all were shown.  Indices are 1-based here.
\* Of the shared variables it uses app, serverFile, fetched, loading,
\* error, questions, currentQuestion and hasAnswered.

\* the reset that never happens while exactly all questions are used
L_allUsed_OnlyBeyond(used, list) == Cardinality(used) > Len(list)

\* this.usedQuestions.size >= this.questions.length
L_allUsed(used, list) == Cardinality(used) >= Len(list)

\* a loop that takes whatever index it drew
L_rejects_Never(used, index) == FALSE

\* while (this.usedQuestions.has(randomIndex))
L_rejects(used, index) == index \in used

\* what the earlier QuizApp never touches
quizVars ==
    <<storageWorks, crashed, restoringFromCheckpoint, storage, clearCalls, restartStage,
      currentQuestionIndex, questionsAttempted, correctCount, isTextMode, userAnswer,
      showSelfAssessment, showFeedback, feedbackData, inputDisabled, optionsDisabled,
      textInputVisible, optionsVisible, complete>>

InitLegacy ==
    /\ app = "legacy"
    /\ serverFile \in SeqsUpTo(QuestionBank, MaxPicked)
    /\ fetched = Null
    /\ loading = TRUE
    /\ error = FALSE
    /\ crashed = FALSE
    /\ restoringFromCheckpoint = FALSE
    /\ storage = Null
    /\ storageWorks = TRUE
    /\ clearCalls = 0
    /\ restartStage = "none"
    /\ InitSession
    /\ usedQuestions = {}
    /\ randomIndex = Null
    /\ pc = "idle"
    /\ presented = <<>>

\* showRandomQuestion up to its do-while loop, the list being list: it
\* returns at once on an empty list (back to its caller, which is load
\* when fromLoad), else clears the used set if all were used and enters
\* the loop
L_showRandomQuestion(list, fromLoad) ==
    IF Len(list) = 0
    THEN /\ loading' = IF fromLoad THEN FALSE ELSE loading
         /\ UNCHANGED legacyVars
    ELSE /\ usedQuestions' = IF L_allUsed(usedQuestions, list) THEN {} ELSE usedQuestions
         /\ presented' = IF L_allUsed(usedQuestions, list) THEN <<>> ELSE presented
         /\ randomIndex' = Null
         /\ pc' = "loop"
         /\ UNCHANGED loading

\* loadQuestions, the fetch resolved: the list is stored as fetched and
\* the first question is picked; hideLoading follows the pick
L_FetchOk ==
    /\ app = "legacy" /\ loading /\ fetched = Null /\ pc = "idle"
    /\ fetched' = Some(serverFile)
    /\ questions' = serverFile
    /\ L_showRandomQuestion(serverFile, TRUE)
    /\ UNCHANGED <<app, serverFile, error, currentQuestion, hasAnswered, quizVars>>

\* loadQuestions, the fetch failed: showError
L_FetchFail ==
    /\ app = "legacy" /\ loading /\ fetched = Null /\ pc = "idle"
    /\ loading' = FALSE
    /\ error' = TRUE
    /\ UNCHANGED <<app, serverFile, fetched, questions, currentQuestion, hasAnswered,
                   quizVars, legacyVars>>

\* click on newQuestionBtn or nextQuestionBtn
L_ClickNewQuestion ==
    /\ app = "legacy" /\ pc = "idle"
    /\ L_showRandomQuestion(questions, FALSE)
    /\ UNCHANGED <<app, serverFile, fetched, error, questions, currentQuestion,
                   hasAnswered, quizVars>>

\* one round of the do-while loop with Math.random() giving index, and,
\* when the loop ends with it, the rest of showRandomQuestion and the
\* hideLoading of the load that called it
L_Draw(index) ==
    /\ app = "legacy" /\ pc = "loop"
    /\ randomIndex' = Some(index)
    /\ IF L_rejects(usedQuestions, index)
       THEN UNCHANGED <<usedQuestions, presented, pc, currentQuestion, hasAnswered, loading>>
       ELSE /\ usedQuestions' = usedQuestions \cup {index}
            /\ presented' = Append(presented, index)
            /\ currentQuestion' = Some(questions[index])
            /\ hasAnswered' = FALSE
            /\ pc' = "idle"
            /\ loading' = FALSE
    /\ UNCHANGED <<app, serverFile, fetched, error, questions, quizVars>>

\* a round that draws an index not used yet
L_DrawUnused ==
    \E index \in 1..Len(questions) : ~L_rejects(usedQuestions, index) /\ L_Draw(index)

NextLegacy ==
    \/ L_FetchOk
    \/ L_FetchFail
    \/ L_ClickNewQuestion
    \/ \E index \in 1..Len(questions) : L_Draw(index)

SpecLegacy == InitLegacy /\ [][NextLegacy]_vars

\* Math.random() is fair: a loop that goes on drawing draws an unused
\* index at some time
FairSpecLegacy == SpecLegacy /\ WF_vars(L_DrawUnused)

(* ------------------------- notions of the claims ---------------------- *)
LetterSet == { Letters[i] : i \in 1..Len(Letters) }

\* the QuizState a storage entry holds, Null when it holds none
StoredQuizState(st) ==
    IF st = Null THEN Null
    ELSE IF JSONParseThrows(st[1]) THEN Null
    ELSE LET obj == JSONParse(st[1])
         IN  IF \A i \in 1..Len(QuizStateKeys) : HasProperty(obj, QuizStateKeys[i])
             THEN Some([name \in {QuizStateKeys[i] : i \in 1..Len(QuizStateKeys)}
                          |-> Get(obj, name)])
             ELSE Null

StoredState == StoredQuizState(storage)

\* a question is presented: the page is loaded and the quiz is not over
InQuestion(s) == S_QuestionView(s) \/ R_QuestionView(s)

\* the next button can be clicked
NextButtonShown(s) == S_NextButtonShown(s) \/ R_NextButtonShown(s)

\* the question the handlers of the running app read
CurrentQuestionOf(s) ==
    IF app = "simple" THEN s.currentQuestion ELSE R_currentQuestion(s)

\* the answer of q is one of its alternatives, up to case and outer blanks
WellFormed(q) ==
    \E i \in 1..Len(q.alternatives) : Matches(q.alternatives[i], q.answer)

WellFormedCurrent(s) ==
    CurrentQuestionOf(s) # Null /\ WellFormed(CurrentQuestionOf(s)[1])

\* the self-assessment-pending sub-state
Pending(s) == s.hasAnswered /\ s.showSelfAssessment

\* an assessment button can be clicked
SelfAssessmentShown(s) == S_SelfAssessmentShown(s) \/ R_SelfAssessmentShown(s)

\* how often x occurs in the sequence
Count(x, seq) == Cardinality({ i \in 1..Len(seq) : seq[i] = x })

\* same length, same elements, each as often
IsPermutation(a, b) ==
    /\ Len(a) = Len(b)
    /\ \A i \in 1..Len(a) : Count(a[i], a) = Count(a[i], b)
    /\ \A i \in 1..Len(b) : Count(b[i], a) = Count(b[i], b)

\* a page that is about to fetch and shuffle: first load, nothing stored
AboutToShuffle == loading /\ fetched = Null /\ storage = Null /\ restartStage = "none"

\* the positions of the alternatives of q its answer matches
Hits(q) == { i \in 1..Len(q.alternatives) : Matches(q.alternatives[i], q.answer) }

\* four different alternatives, and the spellings of the i-th of them that
\* differ from it in case and outer blanks only
FourAlternatives == <<Str1("a"), Str1("b"), Str1("c"), Str1("d")>>
UpperCase == <<"A", "B", "C", "D">>
Spellings(i) ==
    { FourAlternatives[i], Str1(UpperCase[i]),
      Str2(" ", FourAlternatives[i][1]), Str3(" ", UpperCase[i], " ") }

\* texts a user can submit: one the fuzzy grader accepts for the first
\* question of the bank, and two it rejects
FreeTexts == { Str1("a"), Str3(" ", "B", " "), Str1("e") }

\* the session without the text that was typed and its copy in the feedback
ForgetText(s) ==
    [s EXCEPT !.userAnswer = EmptyString,
              !.feedbackData = IF @ = Null THEN Null
                               ELSE Some([@[1] EXCEPT !.userAnswer = EmptyString])]

\* what checkTextAnswer would say of the text typed for the current question
Graded(s) ==
    checkTextAnswer(CurrentQuestionOf(s), s.userAnswer, CurrentQuestionOf(s)[1].answer)

\* the completion screen is on the page
CompleteShown(s) ==
    IF app = "simple" THEN ~loading /\ ~error /\ s.complete
    ELSE ~loading /\ ~error /\ ~crashed /\ s.currentQuestionIndex >= Len(s.questions)

\* an option button can be clicked / a text can be typed and submitted
OptionsEnabled(s) == S_OptionsEnabled(s) \/ R_OptionsEnabled(s)
TextInputEnabled(s) ==
    S_TextInputEnabled(s) \/ (R_TextInputRendered(s) /\ ~s.hasAnswered)

\* position = length
AtEnd(s) == s.currentQuestionIndex = Len(s.questions)

SameStats(s, t) ==
    /\ t.questionsAttempted = s.questionsAttempted
    /\ t.correctCount = s.correctCount

(* ------------------------------ claims -------------------------------- *)

\* C1: in every reachable state, whatever the sequence of selections, text
\* submissions, self-assessments, advances, mode toggles, reloads and
\* checkpoint restores, correct <= attempted (and the same holds of the
\* statistics the stored checkpoint carries).
C1_CorrectAtMostAttempted ==
    /\ 0 <= correctCount
    /\ correctCount <= questionsAttempted
    /\ StoredState # Null => StoredState[1].correctCount <= StoredState[1].questionsAttempted

\* a session restored from a checkpoint with one right and one wrong answer
C1_Witness ==
    /\ restoringFromCheckpoint
    /\ correctCount = 1
    /\ questionsAttempted = 2

\* C2: selectOption called a second time on the same question, before any
\* advance, leaves attempted and correct as the first call left them, for
\* every question and every pair of letters.
C2_SecondSelectIgnored ==
    \A l1 \in LetterSet, l2 \in LetterSet :
        InQuestion(Cur) =>
            SameStats(selectOption(Cur, l1), selectOption(selectOption(Cur, l1), l2))

\* a multiple-choice question answered once, feedback shown, not advanced
C2_Witness ==
    /\ InQuestion(Cur)
    /\ ~isTextMode /\ hasAnswered /\ showFeedback
    /\ questionsAttempted = 1
    /\ currentQuestionIndex = 0

\* C3: on an unanswered, well-formed current question selectOption(letter)
\* sets hasAnswered, adds exactly 1 to attempted, adds 1 to correct if the
\* letter is the correct letter and 0 otherwise, and keeps position and mode.
C3_SelectCounts ==
    \A letter \in LetterSet :
        (InQuestion(Cur) /\ ~hasAnswered /\ WellFormedCurrent(Cur)) =>
            LET t == selectOption(Cur, letter)
                q == CurrentQuestionOf(Cur)
                right == letter = extractCorrectAnswer(q, q[1].answer)
            IN  /\ t.hasAnswered
                /\ t.questionsAttempted = questionsAttempted + 1
                /\ t.correctCount = correctCount + (IF right THEN 1 ELSE 0)
                /\ t.currentQuestionIndex = currentQuestionIndex
                /\ t.isTextMode = isTextMode

\* the first question answered with its correct letter
C3_Witness ==
    /\ InQuestion(Cur)
    /\ ~isTextMode /\ hasAnswered /\ showFeedback
    /\ questionsAttempted = 1 /\ correctCount = 1
    /\ WellFormedCurrent(Cur)

\* C4: the next button is offered only for a question that was answered
\* and counted, so position never passes an uncounted question:
\* position <= attempted in every reachable state.
C4_PositionAtMostAttempted ==
    /\ currentQuestionIndex <= questionsAttempted
    /\ NextButtonShown(Cur) => (hasAnswered /\ currentQuestionIndex < questionsAttempted)

\* the second question presented after exactly one counted answer
C4_Witness ==
    /\ InQuestion(Cur)
    /\ currentQuestionIndex = 1
    /\ questionsAttempted = 1
    /\ ~hasAnswered

\* C5: with a well-formed question list, goToNextQuestion on the answered
\* last question (position n-1) makes position equal n, the Complete state,
\* so a user who keeps answering and advancing ends the quiz.
C5_AdvanceCompletes ==
    ( /\ InQuestion(Cur)
      /\ NextButtonShown(Cur)
      /\ currentQuestionIndex = Len(questions) - 1
      /\ \A i \in 1..Len(questions) : WellFormed(questions[i]) )
    => AtEnd(goToNextQuestion(Cur))

\* C6: once the component's session is at position = length (Complete),
\* clearSavedState has run exactly once and no checkpoint is stored.
C6_CompleteClearsOnce ==
    (app = "react" /\ ~loading /\ ~error /\ AtEnd(Cur))
    => (clearCalls = 1 /\ storage = Null)

\* C7: toggleMode in any in-question state (unanswered, pending, answered)
\* flips the mode and keeps position, attempted, correct and the question
\* order.
C7_ToggleKeepsProgress ==
    InQuestion(Cur) =>
        LET t == toggleMode(Cur)
        IN  /\ t.isTextMode = ~isTextMode
            /\ t.currentQuestionIndex = currentQuestionIndex
            /\ SameStats(Cur, t)
            /\ t.questions = questions

\* the mode toggled to text after the first question was answered and counted
C7_Witness ==
    /\ app = "simple" /\ InQuestion(Cur)
    /\ isTextMode /\ ~hasAnswered
    /\ questionsAttempted = 1
    /\ currentQuestionIndex = 0

\* C8 as stated: submitTextAnswer with a text that is non-empty after
\* trimming, on any unanswered current question, enters the
\* self-assessment-pending sub-state and keeps attempted, correct, position
\* and mode; a second submitTextAnswer while pending changes nothing.
C8_SubmitTextPendsAnyQuestion ==
    \A text \in Texts :
        (InQuestion(Cur) /\ ~hasAnswered /\ Trim(text) # EmptyString) =>
            LET t == submitTextAnswer([Cur EXCEPT !.userAnswer = text])
            IN  /\ Pending(t)
                /\ SameStats(Cur, t)
                /\ t.currentQuestionIndex = currentQuestionIndex
                /\ t.isTextMode = isTextMode
                /\ submitTextAnswer(t) = t

\* C8 (amended): submitTextAnswer with a text that is non-empty after
\* trimming, on an unanswered current question whose answer matches one of
\* its alternatives, enters the self-assessment-pending sub-state and keeps
\* attempted, correct, position and mode; a second submitTextAnswer while
\* pending changes nothing.
C8_SubmitTextPends ==
    \A text \in Texts :
        (InQuestion(Cur) /\ ~hasAnswered /\ WellFormedCurrent(Cur)
            /\ Trim(text) # EmptyString) =>
            LET t == submitTextAnswer([Cur EXCEPT !.userAnswer = text])
            IN  /\ Pending(t)
                /\ SameStats(Cur, t)
                /\ t.currentQuestionIndex = currentQuestionIndex
                /\ t.isTextMode = isTextMode
                /\ submitTextAnswer(t) = t

\* a free-text answer submitted and not yet assessed
C8_Witness ==
    /\ InQuestion(Cur)
    /\ isTextMode /\ Pending(Cur)
    /\ Trim(userAnswer) # EmptyString
    /\ questionsAttempted = 0

\* C9: submitTextAnswer with a text that is empty after trimming changes no
\* field of the session, and the question can still be answered afterwards
\* (by a non-empty text or by a letter).
C9_EmptyTextRejected ==
    \A text \in Texts :
        (InQuestion(Cur) /\ ~hasAnswered /\ Trim(text) = EmptyString) =>
            LET s0 == [Cur EXCEPT !.userAnswer = text]
                t == submitTextAnswer(s0)
            IN  /\ t = s0
                /\ WellFormedCurrent(Cur) =>
                     /\ \A text2 \in Texts :
                          Trim(text2) # EmptyString =>
                              Pending(submitTextAnswer([t EXCEPT !.userAnswer = text2]))
                     /\ \A letter \in LetterSet :
                          selectOption(t, letter).questionsAttempted = questionsAttempted + 1

\* blanks typed into the answer input of an unanswered question
C9_Witness ==
    /\ InQuestion(Cur)
    /\ isTextMode /\ ~hasAnswered /\ ~showSelfAssessment
    /\ userAnswer = Str1(" ")

\* C10: in the pending sub-state handleSelfAssessment(isCorrect) adds
\* exactly 1 to attempted, adds 1 to correct if isCorrect and 0 otherwise,
\* leaves the pending sub-state and shows the feedback with the next
\* button; from attempted = 0, assessed incorrect: attempted = 1,
\* correct = 0, accuracy 0.
C10_AssessmentCounts ==
    \A isCorrect \in BOOLEAN :
        (InQuestion(Cur) /\ Pending(Cur)) =>
            LET t == handleSelfAssessment(Cur, isCorrect)
            IN  /\ t.questionsAttempted = questionsAttempted + 1
                /\ t.correctCount = correctCount + (IF isCorrect THEN 1 ELSE 0)
                /\ ~Pending(t)
                /\ t.showFeedback
                /\ NextButtonShown(t)
                /\ (questionsAttempted = 0 /\ ~isCorrect) =>
                     /\ t.questionsAttempted = 1
                     /\ t.correctCount = 0
                     /\ Accuracy(t.correctCount, t.questionsAttempted) = 0

\* the first question answered in free text and assessed incorrect
C10_Witness ==
    /\ InQuestion(Cur)
    /\ isTextMode /\ hasAnswered /\ showFeedback /\ ~showSelfAssessment
    /\ questionsAttempted = 1 /\ correctCount = 0
    /\ currentQuestionIndex = 0
    /\ Accuracy(correctCount, questionsAttempted) = 0

\* C11: handleSelfAssessment is bound to the two assessment buttons only,
\* and the page offers them only in the pending sub-state of a presented
\* question in text mode: never before a free-text answer was submitted,
\* never in multiple-choice mode, never once the feedback is shown, never
\* when the session is complete.  The handler leaves the pending sub-state
\* and takes the buttons away, so one submission is counted at most once.
C11_AssessmentOnlyWhenPending ==
    SelfAssessmentShown(Cur) =>
        /\ InQuestion(Cur) /\ Pending(Cur)
        /\ isTextMode /\ ~showFeedback
        /\ currentQuestionIndex < Len(questions)
        /\ \A isCorrect \in BOOLEAN :
             LET t == handleSelfAssessment(Cur, isCorrect)
             IN  /\ ~SelfAssessmentShown(t)
                 /\ ~Pending(t)
                 /\ t.questionsAttempted = questionsAttempted + 1

\* the second question's free-text answer awaits its assessment after the
\* first one was assessed
C11_Witness ==
    /\ SelfAssessmentShown(Cur)
    /\ currentQuestionIndex = 1
    /\ questionsAttempted = 1

\* C12: after a restart (Restart Quiz of the component, Start Over of
\* SimpleQuizApp) the page loads anew with an empty checkpoint store, and
\* the state its fetch leaves has position 0, attempted 0, correct 0,
\* nothing answered, over a shuffle of the server's list that was not
\* restored from a checkpoint; the question is presented when the list has
\* one, and the store then holds this new session only.
C12_RestartStartsAfresh ==
    /\ restartStage = "restarted" =>
          /\ loading /\ Cur = InitialSession
          /\ storage = Null
    /\ restartStage = "ready" =>
          /\ ~loading /\ ~error
          /\ currentQuestionIndex = 0 /\ questionsAttempted = 0 /\ correctCount = 0
          /\ ~hasAnswered /\ ~showFeedback /\ ~showSelfAssessment
          /\ ~restoringFromCheckpoint
          /\ questions \in Shuffles(serverFile)
          /\ Len(serverFile) > 0 => InQuestion(Cur)
          /\ (app = "react" /\ Len(serverFile) > 0) =>
                StoredState = Some(Checkpoint(Cur))

\* the component presents the first of two questions after a restart
C12_Witness ==
    /\ app = "react"
    /\ restartStage = "ready"
    /\ Len(questions) = 2
    /\ InQuestion(Cur)

\* C13: with localStorage working and a non-empty question list, saveState
\* of the component's session followed by the loadState of a page load
\* takes the restore branch, and the session restored into a fresh page has
\* the saved question list in the saved order and the saved position,
\* attempted, correct and mode.
C13_SaveLoadRoundTrip ==
    (app = "react" /\ storageWorks /\ Len(questions) > 0) =>
        LET savedState == loadState(saveState(Cur, storage))
        IN  /\ savedState # Null
            /\ ~RestoreThrows(savedState[1])
            /\ Len(Get(savedState[1], "shuffledQuestions")) > 0
            /\ LET r == R_restoreState(InitialSession, savedState[1])
               IN  /\ r.questions = questions
                   /\ r.currentQuestionIndex = currentQuestionIndex
                   /\ r.questionsAttempted = questionsAttempted
                   /\ r.correctCount = correctCount
                   /\ r.isTextMode = isTextMode

\* a page load restored the second of two different questions in text
\* mode with one answer counted
C13_Witness ==
    /\ restoringFromCheckpoint
    /\ Len(questions) = 2 /\ questions[1] # questions[2]
    /\ currentQuestionIndex = 1
    /\ questionsAttempted = 1
    /\ isTextMode

\* C14: with localStorage working, whenever the component presents a
\* question (the list is not empty, the session is not complete and every
\* transition so far has run to its end, save effect included), the stored
\* checkpoint holds exactly the current question list, position, attempted,
\* correct and mode.
C14_CheckpointIsCurrent ==
    (R_QuestionView(Cur) /\ storageWorks) =>
        /\ StoredState # Null
        /\ StoredState[1].shuffledQuestions = questions
        /\ StoredState[1].currentQuestionIndex = currentQuestionIndex
        /\ StoredState[1].questionsAttempted = questionsAttempted
        /\ StoredState[1].correctCount = correctCount
        /\ StoredState[1].isTextMode = isTextMode

\* the component on its second question, in text mode, one answer counted
\* correct, and all of it stored
C14_Witness ==
    /\ R_QuestionView(Cur)
    /\ ~restoringFromCheckpoint
    /\ currentQuestionIndex = 1 /\ questionsAttempted = 1 /\ correctCount = 1
    /\ isTextMode
    /\ StoredState # Null
    /\ StoredState[1].currentQuestionIndex = 1
    /\ StoredState[1].isTextMode

\* C15: when the fetch of a page load of the component resolved and the
\* checkpoint store holds an entry no session state can be read from (no
\* JSON, or JSON without the expected properties), the page is not in the
\* error state.
C15_UnreadableCheckpointIsAbsent ==
    (app = "react" /\ fetched # Null /\ storage # Null /\ StoredState = Null)
        => ~error

C19_ShuffleIsPermutation ==
    /\ \A p \in Picks(Len(serverFile)) :
          IsPermutation(FisherYates(serverFile, Len(serverFile), p), serverFile)
    /\ \A shuffled \in Shuffles(serverFile) : IsPermutation(shuffled, serverFile)
    /\ (~loading /\ ~error) => IsPermutation(questions, serverFile)
    /\ AboutToShuffle =>
          \A list \in SeqsUpTo(QuestionBank, MaxShuffled) :
             \A p \in Picks(Len(list)) :
                IsPermutation(FisherYates(list, Len(list), p), list)

\* SimpleQuizApp holds the server's two different questions in the other order
C19_Witness ==
    /\ app = "simple" /\ ~loading /\ ~error
    /\ Len(serverFile) = 2 /\ serverFile[1] # serverFile[2]
    /\ questions = <<serverFile[2], serverFile[1]>>

\* C20: for a question whose answer matches exactly one of its four
\* alternatives after case folding and trimming, extractCorrectAnswer
\* returns the letter of that position (first A, second B, third C, fourth
\* D): for each position and each spelling of the answer, and for the
\* presented question of every reachable state, where selecting that
\* letter is then counted as correct.  [a, b, c, d] with answer a gives A.
C20_UniqueMatchGivesItsLetter ==
    /\ \A i \in 1..4 : \A answer \in Spellings(i) :
          LET q == Question(FourAlternatives, answer)
          IN  /\ Hits(q) = {i}
              /\ extractCorrectAnswer(Some(q), answer) = Letters[i]
    /\ extractCorrectAnswer(Some(Question(FourAlternatives, Str1("a"))), Str1("a")) = "A"
    /\ (InQuestion(Cur) /\ Cardinality(Hits(CurrentQuestionOf(Cur)[1])) = 1) =>
          LET q == CurrentQuestionOf(Cur)[1]
          IN  \A i \in Hits(q) :
                /\ extractCorrectAnswer(CurrentQuestionOf(Cur), q.answer) = Letters[i]
                /\ ~hasAnswered =>
                      selectOption(Cur, Letters[i]).correctCount = correctCount + 1

\* the component reported A as the correct letter of a question whose
\* answer matches its first alternative only, and counted the selection
C20_Witness ==
    /\ R_QuestionView(Cur)
    /\ Hits(CurrentQuestionOf(Cur)[1]) = {1}
    /\ feedbackData # Null
    /\ feedbackData[1].correctLetter = "A"
    /\ feedbackData[1].isCorrect
    /\ ~isTextMode /\ correctCount = 1

\* C21: the accuracy displayed for the statistics of a reachable state,
\* and for the statistics any further answers (up to MaxCounted of them,
\* any number of them correct) lead to, is 0 when attempted = 0 and
\* otherwise 100 * correct / attempted rounded to the nearest integer,
\* halves up: floor((200 * correct + attempted) / (2 * attempted)).
C21_AccuracyRoundsHalfUp ==
    \A more \in 0..MaxCounted : \A right \in 0..more :
        LET attempted == questionsAttempted + more
            correct == correctCount + right
        IN  Accuracy(correct, attempted) =
                IF attempted = 0 THEN 0
                ELSE (200 * correct + attempted) \div (2 * attempted)

\* C22: from every state in which a free-text answer can be submitted,
\* two runs that submit different non-empty texts and then give the same
\* self-assessment agree in every field but the text itself after the
\* submission, after the assessment, and after the advance or the mode
\* toggle that follows; the assessment alone decides whether the answer
\* counts as correct, whatever checkTextAnswer would say of the text.
C22_TextDoesNotGrade ==
    (InQuestion(Cur) /\ isTextMode /\ ~hasAnswered) =>
        \A text1 \in FreeTexts : \A text2 \in FreeTexts : \A isCorrect \in BOOLEAN :
            LET p1 == submitTextAnswer([Cur EXCEPT !.userAnswer = text1])
                p2 == submitTextAnswer([Cur EXCEPT !.userAnswer = text2])
                t1 == handleSelfAssessment(p1, isCorrect)
                t2 == handleSelfAssessment(p2, isCorrect)
            IN  /\ ForgetText(p1) = ForgetText(p2)
                /\ SelfAssessmentShown(p1) =>
                     /\ ForgetText(t1) = ForgetText(t2)
                     /\ t1.questionsAttempted = questionsAttempted + 1
                     /\ t1.correctCount = correctCount + (IF isCorrect THEN 1 ELSE 0)
                     /\ t1.currentQuestionIndex = currentQuestionIndex
                     /\ ForgetText(goToNextQuestion(t1)) = ForgetText(goToNextQuestion(t2))
                     /\ ForgetText(toggleMode(t1)) = ForgetText(toggleMode(t2))

\* a text the fuzzy grader rejects was assessed correct and counted so
C22_Witness ==
    /\ InQuestion(Cur) /\ WellFormedCurrent(Cur)
    /\ isTextMode /\ hasAnswered /\ showFeedback /\ ~showSelfAssessment
    /\ questionsAttempted = 1 /\ correctCount = 1
    /\ Trim(userAnswer) # EmptyString
    /\ ~Graded(Cur)

\* C23: in every state of a loaded session 0 <= position <= length, the
\* current question is the one at the position whenever position < length,
\* and the session is complete (the completion screen is shown) exactly
\* when position = length.
C23_PositionIndexesQuestions ==
    (~loading /\ ~error) =>
        /\ 0 <= currentQuestionIndex
        /\ currentQuestionIndex <= Len(questions)
        /\ currentQuestionIndex < Len(questions) =>
              CurrentQuestionOf(Cur) = Some(questions[currentQuestionIndex + 1])
        /\ CompleteShown(Cur) <=> currentQuestionIndex = Len(questions)

\* C24: toggleMode on a presented question, whatever its state (unanswered,
\* text typed, assessment pending, feedback shown), leaves it unanswered
\* with no feedback, no next button and no pending assessment, and offers
\* the input of the new mode afresh: the options enabled, or the text
\* input enabled and empty.  A text typed before the toggle is gone: the
\* text input is either shown empty or not shown and emptied by the toggle
\* that shows it again.
C24_ToggleResetsQuestion ==
    InQuestion(Cur) =>
        LET t == toggleMode(Cur)
        IN  /\ ~t.hasAnswered
            /\ ~t.showFeedback /\ ~t.showSelfAssessment
            /\ ~NextButtonShown(t) /\ ~SelfAssessmentShown(t)
            /\ app = "react" => (t.feedbackData = Null /\ t.userAnswer = EmptyString)
            /\ t.isTextMode =>
                  /\ t.userAnswer = EmptyString
                  /\ TextInputEnabled(t) /\ ~OptionsEnabled(t)
            /\ ~t.isTextMode =>
                  /\ OptionsEnabled(t) /\ ~TextInputEnabled(t)
                  /\ toggleMode(t).userAnswer = EmptyString

\* the component back in multiple-choice mode on its first question,
\* unanswered, after an answer to it was counted
C24_Witness ==
    /\ R_QuestionView(Cur)
    /\ ~isTextMode /\ ~hasAnswered
    /\ currentQuestionIndex = 0 /\ questionsAttempted = 1
    /\ feedbackData = Null /\ userAnswer = EmptyString

\* nothing of an earlier answer is held or shown
Fresh(s) ==
    /\ ~s.hasAnswered
    /\ ~s.showFeedback /\ ~s.showSelfAssessment /\ s.feedbackData = Null
    /\ ~NextButtonShown(s) /\ ~SelfAssessmentShown(s)

\* the sessions a resolved fetch can leave
Loaded ==
    IF app = "simple"
    THEN { S_displayCurrentQuestion([Cur EXCEPT !.questions = shuffled]) :
             shuffled \in Shuffles(serverFile) }
    ELSE { out.session : out \in { o \in R_loadQuestions(loadState(storage), Cur, serverFile) :
                                     ~o.error } }

\* a question becomes current by a load, a restore or an advance: then it
\* is unanswered and nothing of an earlier question is held or shown
FreshWhenCurrent ==
    /\ loading =>
         \A t \in Loaded :
             t.currentQuestionIndex < Len(t.questions) => Fresh(t)
    /\ (InQuestion(Cur) /\ NextButtonShown(Cur)) =>
         LET t == goToNextQuestion(Cur)
         IN  (t.currentQuestionIndex # currentQuestionIndex
                /\ t.currentQuestionIndex < Len(t.questions)) => Fresh(t)

\* the answered question is on screen with the trace of its submission:
\* feedback, a pending assessment, or the malformed question that threw
AnsweredOnCurrent(s) ==
    /\ InQuestion(s)
    /\ CurrentQuestionOf(s) = Some(s.questions[s.currentQuestionIndex + 1])
    /\ s.showFeedback \/ s.showSelfAssessment \/ ~WellFormedCurrent(s)

R_EventResults ==
    { [Cur EXCEPT !.userAnswer = text] : text \in
          IF R_TextInputRendered(Cur) /\ ~hasAnswered THEN Texts ELSE {} }
    \cup (IF R_TextInputRendered(Cur) /\ ~hasAnswered
          THEN { R_submitTextAnswer(Cur) } ELSE {})
    \cup { R_selectOption(Cur, letter) : letter \in
          IF R_OptionsEnabled(Cur) THEN LetterSet ELSE {} }
    \cup { R_handleSelfAssessment(Cur, isCorrect) : isCorrect \in
          IF R_SelfAssessmentShown(Cur) THEN BOOLEAN ELSE {} }
    \cup (IF R_NextButtonShown(Cur) THEN { R_goToNextQuestion(Cur) } ELSE {})
    \cup { R_toggleMode(Cur) }

\* t differs from s in nothing that is persisted
OnlyEphemeralChange(s, t) == Checkpoint(t) = Checkpoint(s)

\* storage entries a write would be seen on
StorageProbes == { Null, Some(InvalidJSON), storage }

\* C26: a transition of QuizApp that changes only ephemeral fields
\* (answered flag, feedback, pending self-assessment, typed text) does
\* not write the checkpoint, whatever the storage entry holds; in
\* particular the text submit that enters the pending sub-state.
C26_EphemeralChangesNotSaved ==
    R_QuestionView(Cur) =>
        /\ \A t \in R_EventResults : \A st \in StorageProbes :
               OnlyEphemeralChange(Cur, t) => SaveEffect(Cur, t, st) = st
        /\ (R_TextInputRendered(Cur) /\ ~hasAnswered /\ WellFormedCurrent(Cur)
              /\ Trim(userAnswer) # EmptyString) =>
               LET t == R_submitTextAnswer(Cur)
               IN  /\ Pending(t)
                   /\ \A st \in StorageProbes : SaveEffect(Cur, t, st) = st

\* the pending sub-state entered, the checkpoint as it was written when
\* the mode was switched on the first question
C26_Witness ==
    /\ R_QuestionView(Cur) /\ Pending(Cur)
    /\ storageWorks /\ ~restoringFromCheckpoint
    /\ currentQuestionIndex = 0 /\ questionsAttempted = 0
    /\ StoredState = Some(Checkpoint(Cur))

Positions(n) == [i \in 1..n |-> i]
Arrangements(n) == { f \in [1..n -> 1..n] : \A i, j \in 1..n : f[i] = f[j] => i = j }

\* over lists of n elements the loop sends different sequences of chosen
\* indices to different orders, and reaches every order
OneToOneOnto(n) ==
    /\ \A p, q \in Picks(n) :
          FisherYates(Positions(n), n, p) = FisherYates(Positions(n), n, q) => p = q
    /\ \A f \in Arrangements(n) :
          \E p \in Picks(n) : FisherYates(Positions(n), n, p) = f
    /\ \A p \in Picks(n) : FisherYates(Positions(n), n, p) \in Arrangements(n)

\* C28: the Fisher-Yates loop maps the sequences of chosen indices one to
\* one onto the permutations of its input: every order of an n-element
\* list comes from exactly one sequence.  This holds of the server's list
\* in every state and, where a page is about to shuffle, of every length
\* up to MaxShuffled.
C28_ShuffleIsBijection ==
    /\ OneToOneOnto(Len(serverFile))
    /\ Cardinality(Picks(Len(serverFile))) = Cardinality(Arrangements(Len(serverFile)))
    /\ AboutToShuffle => \A n \in 0..MaxShuffled : OneToOneOnto(n)

\* QuizApp shuffled the server's two different questions into the other
\* order, one of the two orders its two index sequences give
C28_Witness ==
    /\ app = "react" /\ ~loading /\ ~error /\ ~restoringFromCheckpoint
    /\ Len(serverFile) = 2 /\ serverFile[1] # serverFile[2]
    /\ questions = <<serverFile[2], serverFile[1]>>
    /\ Cardinality(Shuffles(serverFile)) = 2

\* the fetch resolved: the array response.json() returned exists
Fetched == ~loading /\ fetched # Null

\* C29 as stated: the shuffle works on a copy, so after it the fetched
\* list still has the order the server sent and only the session's list
\* holds the shuffled order.
C29_ShuffleLeavesFetchedList ==
    Fetched =>
        /\ fetched = Some(serverFile)
        /\ ~error => IsPermutation(questions, serverFile)

\* C29 as the code has it: QuizApp shuffles a copy and leaves the fetched
\* list in the server's order; SimpleQuizApp shuffles the fetched array
\* itself, which is the list the session holds.
C29_ShuffleCopiesInQuizApp ==
    Fetched =>
        /\ app = "react" => fetched = Some(serverFile)
        /\ app = "simple" => fetched = Some(questions)
        /\ ~error => IsPermutation(questions, serverFile)

\* QuizApp holds the two questions in the other order, the fetched list
\* still in the server's
C29_Witness ==
    /\ app = "react" /\ Fetched /\ ~error /\ ~restoringFromCheckpoint
    /\ Len(serverFile) = 2 /\ serverFile[1] # serverFile[2]
    /\ questions = <<serverFile[2], serverFile[1]>>
    /\ fetched = Some(serverFile)

\* four alternatives of which those at i and j spell the answer "e"
TwoSpellings(i, j) ==
    [k \in 1..4 |-> IF k = i THEN Str2("E", " ")
                    ELSE IF k = j THEN Str1("e")
                    ELSE FourAlternatives[k]]

\* C30: when several alternatives equal the answer after case folding and
\* trimming, extractCorrectAnswer returns the letter of the first of them:
\* for every two positions of a four-alternative question, and for the
\* presented question of every reachable state, where selecting that
\* letter is counted as correct and selecting the letter of a later match
\* is counted as attempted and incorrect.
C30_FirstMatchIsCorrectLetter ==
    /\ \A i \in 1..4 : \A j \in (i + 1)..4 :
          LET q == Question(TwoSpellings(i, j), Str2(" ", "e"))
          IN  /\ Hits(q) = {i, j}
              /\ extractCorrectAnswer(Some(q), q.answer) = Letters[i]
    /\ (InQuestion(Cur) /\ Cardinality(Hits(CurrentQuestionOf(Cur)[1])) > 1) =>
          LET q == CurrentQuestionOf(Cur)[1]
              first == Min(Hits(q))
          IN  /\ extractCorrectAnswer(CurrentQuestionOf(Cur), q.answer) = Letters[first]
              /\ ~hasAnswered =>
                    /\ selectOption(Cur, Letters[first]).correctCount = correctCount + 1
                    /\ selectOption(Cur, Letters[first]).questionsAttempted
                          = questionsAttempted + 1
                    /\ \A i \in Hits(q) \ {first} :
                          /\ selectOption(Cur, Letters[i]).correctCount = correctCount
                          /\ selectOption(Cur, Letters[i]).questionsAttempted
                                = questionsAttempted + 1

\* the component counted the selection of the second of two matching
\* alternatives as incorrect and reported the letter of the first
C30_Witness ==
    /\ R_QuestionView(Cur)
    /\ Hits(CurrentQuestionOf(Cur)[1]) = {2, 3}
    /\ feedbackData # Null
    /\ feedbackData[1].selectedLetter = "C"
    /\ feedbackData[1].correctLetter = "B"
    /\ ~feedbackData[1].isCorrect
    /\ ~isTextMode /\ questionsAttempted = 1 /\ correctCount = 0

\* the sessions one event of the question view of SimpleQuizApp leads to
S_EventResults ==
    { [Cur EXCEPT !.userAnswer = text] : text \in
          IF S_TextInputEnabled(Cur) THEN Texts ELSE {} }
    \cup (IF S_TextInputEnabled(Cur) THEN { S_submitTextAnswer(Cur) } ELSE {})
    \cup { S_selectOption(Cur, letter) : letter \in
          IF S_OptionsEnabled(Cur) /\ ~hasAnswered THEN LetterSet ELSE {} }
    \cup { S_handleSelfAssessment(Cur, isCorrect) : isCorrect \in
          IF S_SelfAssessmentShown(Cur) THEN BOOLEAN ELSE {} }
    \cup (IF S_NextButtonShown(Cur) THEN { S_goToNextQuestion(Cur) } ELSE {})
    \cup (IF S_QuestionView(Cur) THEN { S_toggleMode(Cur) } ELSE {})

\* the sessions a select, submit, assessment, advance or mode toggle of
\* the running app leads to from the current state
EventResults ==
    IF app = "simple" THEN S_EventResults
    ELSE IF R_QuestionView(Cur) THEN R_EventResults ELSE {}

\* no question was counted more than once: attempted counts the questions
\* before the current one and the current one if it is answered
CountedOnce(s) ==
    /\ s.questionsAttempted <= s.currentQuestionIndex + (IF s.hasAnswered THEN 1 ELSE 0)
    /\ s.questionsAttempted <= s.currentQuestionIndex + 1
    /\ s.questionsAttempted <= Len(s.questions) \/ Len(s.questions) = 0

\* C31: each question is counted at most once.  A fresh session starts
\* with attempted <= position, and from a state in which attempted is at
\* most position + 1 (at most position when the current question is
\* unanswered) every select, submit, self-assessment, advance and mode
\* toggle leads to such a state again; so in a run without reload
\* attempted never exceeds the number of questions.
C31_EachQuestionCountedOnce ==
    /\ (loading /\ loadState(storage) = Null) => \A t \in Loaded : CountedOnce(t)
    /\ (InQuestion(Cur) /\ CountedOnce(Cur)) => \A t \in EventResults : CountedOnce(t)

\* the sessions the page restores when it is reloaded in the current state
RestoredByReload ==
    { out.session : out \in { o \in R_loadQuestions(loadState(storage), InitialSession,
                                                    serverFile) : o.restoring } }

\* C32: a reload does not let a question be counted twice.  Where the
\* current question was answered and counted and the checkpoint holds the
\* count, the session restored by a reload is on the same question with
\* the same statistics, and neither a selection nor a text submit followed
\* by a self-assessment changes attempted or correct in it before an
\* advance.
C32_ReloadKeepsQuestionCounted ==
    (R_QuestionView(Cur) /\ hasAnswered /\ showFeedback
       /\ StoredState = Some(Checkpoint(Cur))) =>
        \A r \in RestoredByReload :
            /\ r.currentQuestionIndex = currentQuestionIndex
            /\ r.questionsAttempted = questionsAttempted
            /\ r.correctCount = correctCount
            /\ \A letter \in LetterSet :
                  SameStats(R_selectOption(r, letter), Cur)
            /\ \A text \in FreeTexts : \A isCorrect \in BOOLEAN :
                  LET p == R_submitTextAnswer([r EXCEPT !.userAnswer = text])
                  IN  SameStats(IF p.showSelfAssessment
                                THEN R_handleSelfAssessment(p, isCorrect) ELSE p, Cur)

\* C33: when extractCorrectAnswer throws during selectOption or
\* submitTextAnswer (the answer of the current question matches none of
\* its alternatives), the session is left exactly as it was before the
\* call: the question stays unanswered and open.
C33_ThrowLeavesSession ==
    (InQuestion(Cur) /\ ~hasAnswered /\ CurrentQuestionOf(Cur) # Null
       /\ ~WellFormedCurrent(Cur)) =>
        /\ extractCorrectAnswer(CurrentQuestionOf(Cur), CurrentQuestionOf(Cur)[1].answer)
              = Throw
        /\ \A letter \in LetterSet :
              /\ selectOption(Cur, letter) = Cur
              /\ ~selectOption(Cur, letter).hasAnswered
        /\ \A text \in FreeTexts :
              LET typed == [Cur EXCEPT !.userAnswer = text]
              IN  /\ submitTextAnswer(typed) = typed
                  /\ ~submitTextAnswer(typed).hasAnswered

C35_EmptyListCompletes ==
    (~loading /\ ~error /\ fetched = Some(<<>>)) =>
        /\ CompleteShown(Cur)
        /\ ~InQuestion(Cur)
        /\ questions = <<>>
        /\ currentQuestionIndex = 0 /\ questionsAttempted = 0 /\ correctCount = 0
        /\ Accuracy(correctCount, questionsAttempted) = 0
        /\ StoredState = Null

\* the indices presented are all different
NoRepeat(seq) == \A i, j \in 1..Len(seq) : seq[i] = seq[j] => i = j

\* C36: showRandomQuestion of the earlier QuizApp never presents a
\* question twice within one cycle.  The indices presented since
\* usedQuestions was last empty are all different and are exactly the
\* used ones, so as many calls as there are questions present every
\* question exactly once, and usedQuestions never holds more indices than
\* there are questions; the question shown is the one last presented.
C36_NoRepeatWithinCycle ==
    app = "legacy" =>
        /\ NoRepeat(presented)
        /\ { presented[i] : i \in 1..Len(presented) } = usedQuestions
        /\ usedQuestions \subseteq 1..Len(questions)
        /\ Cardinality(usedQuestions) <= Len(questions)
        /\ Len(presented) <= Len(questions)
        /\ Len(presented) = Len(questions) =>
              \A index \in 1..Len(questions) :
                 Cardinality({ i \in 1..Len(presented) : presented[i] = index }) = 1
        /\ (pc = "idle" /\ presented # <<>>) =>
              currentQuestion = Some(questions[presented[Len(presented)]])

\* three calls presented the three questions, the last first
C36_Witness ==
    /\ app = "legacy" /\ pc = "idle"
    /\ Len(questions) = 3
    /\ presented = <<3, 1, 2>>
    /\ usedQuestions = {1, 2, 3}

\* C37: every call of showRandomQuestion of the earlier QuizApp
\* terminates.  Whenever the do-while loop runs, some index is not in
\* usedQuestions, and with fair random draws the loop ends; with an empty
\* question list the loop is never entered.
C37_PickTerminates ==
    /\ [](pc = "loop" => \E index \in 1..Len(questions) : index \notin usedQuestions)
    /\ [](Len(questions) = 0 => pc = "idle")
    /\ (pc = "loop") ~> (pc = "idle")

\* the loop goes round again: the index drawn is used already
C37_Witness ==
    /\ app = "legacy" /\ pc = "loop"
    /\ randomIndex # Null
    /\ randomIndex[1] \in usedQuestions
    /\ Cardinality(usedQuestions) = Len(questions) - 1

\* user texts and correct texts the grader is probed with
GradedTexts ==
    Texts \cup FreeTexts \cup
    { Str1("b"), Str2("a", "!"), Str2("?", " "), Str3("a", " ", "b"), Str3("A", ",", "b"),
      Str3("b", " ", " ") \o Str1("A"), Str2("a", "b"), Str1("d") }
CorrectTexts ==
    { Str1("a"), Str2(" ", "b"), Str1("e"), Str3("A", " ", "B") \o Str1("."), Str2("c", "?") }

\* the rule of the claim on normalized texts
EqualOrContained(user, correct) ==
    \/ user = correct
    \/ Includes(user, correct)
    \/ Includes(correct, user)

\* the alternatives of cq the loop of checkTextAnswer stops at
NearAlternatives(cq, typed) ==
    IF cq = Null THEN {}
    ELSE { i \in 1..Len(cq[1].alternatives) :
             EqualOrContained(NormalizeText(typed),
                              NormalizeText(cq[1].alternatives[i])) }

\* C38: checkTextAnswer(userAnswer, correctAnswer) is true exactly when,
\* after normalization (lower case, trim, punctuation removed, blanks
\* collapsed), the user text equals the correct text or one contains the
\* other; the loop over the alternatives of the current question never
\* makes the result true, and a user text that normalizes to the empty
\* string falls under the same rule (it is contained in every text).
\* Checked with the current question and the typed text of every state
\* and, where a page is about to load, with every question and without a
\* current question on every probe text.
C38_FuzzyGraderRule ==
    LET Rule(cq, typedTexts) ==
          \A typed \in typedTexts : \A expected \in CorrectTexts :
              LET user == NormalizeText(typed)
                  correct == NormalizeText(expected)
              IN  /\ checkTextAnswer(cq, typed, expected)
                        = EqualOrContained(user, correct)
                  /\ ~EqualOrContained(user, correct) =>
                        /\ ~checkTextAnswer(cq, typed, expected)
                        /\ checkTextAnswer(cq, typed, expected)
                              = checkTextAnswer(Null, typed, expected)
                  /\ user = EmptyString => checkTextAnswer(cq, typed, expected)
    IN  /\ Rule(currentQuestion, {userAnswer})
        /\ AboutToShuffle =>
              /\ Rule(Null, GradedTexts)
              /\ \A q \in QuestionBank : Rule(Some(q), GradedTexts)

\* SimpleQuizApp holds a submitted text that is neither the answer nor
\* part of it but equals another alternative after normalization: the
\* loop of the grader stops there and the grade is false
C38_Witness ==
    /\ S_QuestionView(Cur) /\ isTextMode /\ hasAnswered
    /\ currentQuestion # Null
    /\ NormalizeText(userAnswer) = Str1("b")
    /\ ~EqualOrContained(NormalizeText(userAnswer), NormalizeText(currentQuestion[1].answer))
    /\ NearAlternatives(currentQuestion, userAnswer) # {}
    /\ ~checkTextAnswer(currentQuestion, userAnswer, currentQuestion[1].answer)

=============================================================================
